---- MODULE Spec2Model ----
(***************************************************************************)
(* Model of the monitoring dashboard script (src/unnamed/part_000, the     *)
(* latest revision of the dashboard's script.js): the event bus, the       *)
(* polling service (apiService), the status, chart, alert, control and     *)
(* utility modules.                                                        *)
(*                                                                         *)
(* Numbers are integers in hundredths (99.2 is 9920), so that toFixed(1)   *)
(* is a real rounding.  Text built with toFixed(1) is kept as the integer  *)
(* number of tenths it prints.  Wall-clock time is the event counter `now`.*)
(* The 1 Hz clock of utilityModule.updateTime only repaints the uptime and *)
(* is left out.                                                            *)
(***************************************************************************)
EXTENDS Integers, Sequences, FiniteSets, TLC

VARIABLES
    pc,                 \* "loading" before DOMContentLoaded, then "ready"
    events,             \* eventBus.events: event name -> sequence of handlers
    monitoringEnabled,  \* apiService.monitoringEnabled
    fetchIntervalId,    \* apiService.fetchIntervalId (0 is null)
    timers,             \* interval ids armed in the browser by setInterval
    nextTimerId,        \* the id the next setInterval returns
    inflight,           \* requests awaiting their response, in issue order
    elements,           \* statusModule.elements: the text of each element
    charts,             \* chartModule.charts: labels and data of each chart
    alertsContainer,    \* children of #alerts-container, first child first
    logsContainer,      \* children of #logs-container, first child first
    now,                \* events handled so far (the clock of the labels)
    lastOp,             \* history: the operation the last step ran
    lastFetch,          \* history: outcome and body of the last completed fetch
    published,          \* history: the events the last step published
    calls               \* history: the handlers the last step invoked

vars == <<pc, events, monitoringEnabled, fetchIntervalId, timers, nextTimerId,
          inflight, elements, charts, alertsContainer, logsContainer, now,
          lastOp, lastFetch, published, calls>>

\* Steps explored from page load.
MaxSteps == 5

\* config (part_000 lines 4-10)
maxChartPoints == 30
maxLogEntries == 50
maxAlerts == 5

(***************************************************************************)
(* JavaScript values.  A value is a record with a type tag; an object      *)
(* carries the properties the script reads.                                *)
(***************************************************************************)
PropNames == {"status", "service_status", "hit_ratio", "active_session_count",
              "success_rate", "avg_response_time_ms", "requests_per_second",
              "total_requests"}

Undefined == [t |-> "undefined", n |-> 0, s |-> ""]
Null == [t |-> "null", n |-> 0, s |-> ""]
Num(x) == [t |-> "number", n |-> x, s |-> ""]
Str(x) == [t |-> "string", n |-> 0, s |-> x]

\* An object payload: p maps property names to values (absent: Undefined).
NoProps == [k \in PropNames |-> Undefined]
Obj(p) == [t |-> "object", n |-> 0, s |-> "", props |-> p]
Prim(v) == [t |-> v.t, n |-> v.n, s |-> v.s, props |-> NoProps]

\* JavaScript truthiness: undefined, null, 0 and "" are falsy.
Truthy(v) ==
    \/ v.t = "object"
    \/ v.t = "number" /\ v.n # 0
    \/ v.t = "string" /\ v.s # ""

\* v || d
OrElse(v, d) == IF Truthy(v) THEN v ELSE d

\* payload?.name : undefined for null and undefined, the property of an
\* object, undefined on a number or a string (none of the names read is a
\* property of Number or String).
Prop(payload, name) == IF payload.t = "object" THEN payload.props[name] ELSE Undefined

\* v < k for a number k: null converts to 0, undefined and a non-numeric
\* string to NaN (every comparison with NaN is false).
LessThan(v, k) ==
    \/ v.t = "number" /\ v.n < k
    \/ v.t = "null" /\ 0 < k

\* v > k
GreaterThan(v, k) ==
    \/ v.t = "number" /\ v.n > k
    \/ v.t = "null" /\ 0 > k

\* v.toFixed(1) is a TypeError unless v is a number.
HasToFixed(v) == v.t = "number"

\* x.toFixed(1) of a number in hundredths: the tenths it prints, rounded to
\* nearest (inputs never end in 5 hundredths, where the binary value decides).
toFixed1(x) == IF x >= 0 THEN (x + 5) \div 10 ELSE -((5 - x) \div 10)

\* The text toFixed(1) prints for a number of tenths t ("80.0").
tenthsText(t) ==
    IF t >= 0 THEN ToString(t \div 10) \o "." \o ToString(t % 10)
    ELSE "-" \o ToString((-t) \div 10) \o "." \o ToString((-t) % 10)

(***************************************************************************)
(* Snapshots.  A decoded body is a value; an object body maps a key to the *)
(* payload under it (absent: undefined).                                   *)
(***************************************************************************)
\* statusModule.serviceDisplayNames, in the order of its keys
serviceKeys == <<"api-gateway", "auth", "user_service", "blog_service", "database", "cache">>

serviceDisplayNames ==
    [k \in {serviceKeys[i] : i \in 1..Len(serviceKeys)} |->
        CASE k = "api-gateway" -> "API Gateway"
          [] k = "auth" -> "Auth Service"
          [] k = "user_service" -> "User Service"
          [] k = "blog_service" -> "Blog Service"
          [] k = "database" -> "Database"
          [] k = "cache" -> "Cache"]

\* the keys a body of the model may carry: the load balancer's, the
\* recognized services' and one the script does not know
BodyKeys == {"load-balancer", "metrics"} \cup DOMAIN serviceDisplayNames

NoKeys == [k \in BodyKeys |-> Prim(Undefined)]
Body(ks) == [t |-> "object", n |-> 0, s |-> "", keys |-> ks]
PrimBody(v) == [t |-> v.t, n |-> v.n, s |-> v.s, keys |-> NoKeys]

\* stats[key] and stats?.[key]: callers reach stats[key] only with a truthy
\* stats; a number or a string has none of these keys.
Key(stats, key) == IF stats.t = "object" THEN stats.keys[key] ELSE Prim(Undefined)

(***************************************************************************)
(* The modules' handlers.  Each works on the page w = [elements, charts,   *)
(* alerts, logs] and returns [w, threw, error]: the page it leaves, and    *)
(* whether it ended by throwing (with the error's message).                *)
(***************************************************************************)
Returns(w) == [w |-> w, threw |-> FALSE, error |-> ""]
Throws(w, msg) == [w |-> w, threw |-> TRUE, error |-> msg]

\* updateChart with pop() in place of shift(): over capacity the point just
\* pushed is the one removed
updateChart_pop(chart, label, data) ==
    LET labels == Append(chart.labels, label)
        points == Append(chart.data, data)
    IN  IF Len(labels) > maxChartPoints
        THEN [labels |-> SubSeq(labels, 1, Len(labels) - 1),
              data |-> SubSeq(points, 1, Len(points) - 1)]
        ELSE [labels |-> labels, data |-> points]

\* updateChart of chartModule.update: push, then shift once over capacity
updateChart(chart, label, data) ==
    LET labels == Append(chart.labels, label)
        points == Append(chart.data, data)
    IN  IF Len(labels) > maxChartPoints
        THEN [labels |-> Tail(labels), data |-> Tail(points)]
        ELSE [labels |-> labels, data |-> points]

\* an update that charts a value only when the snapshot reports it
chartModule_update_skipsMissing(stats, w, time) ==
    LET lb == Key(stats, "load-balancer")
        avg == Prop(lb, "avg_response_time_ms")
        rps == Prop(lb, "requests_per_second")
    IN  Returns([w EXCEPT
            !.charts.responseTime = IF Truthy(avg) THEN updateChart(@, time, avg) ELSE @,
            !.charts.throughput = IF Truthy(rps) THEN updateChart(@, time, rps) ELSE @])

chartModule_update(stats, w, time) ==
    LET lb == Key(stats, "load-balancer")
        avg == OrElse(Prop(lb, "avg_response_time_ms"), Num(0))
        rps == OrElse(Prop(lb, "requests_per_second"), Num(0))
    IN  Returns([w EXCEPT
            !.charts.responseTime = updateChart(@, time, avg),
            !.charts.throughput = updateChart(@, time, rps)])

\* a reset that empties the labels and leaves the data
chartModule_reset_labelsOnly(w) ==
    Returns([w EXCEPT !.charts = [c \in DOMAIN w.charts |->
                                     [labels |-> <<>>, data |-> w.charts[c].data]]])

\* a reset that clears the response-time chart only
chartModule_reset_keepsThroughput(w) ==
    Returns([w EXCEPT !.charts.responseTime = [labels |-> <<>>, data |-> <<>>]])

chartModule_reset(w) ==
    Returns([w EXCEPT !.charts = [c \in DOMAIN w.charts |-> [labels |-> <<>>, data |-> <<>>]]])

\* a loop that takes a service for healthy only when both fields say so
RECURSIVE listServices_bothFields(_, _)
listServices_bothFields(stats, i) ==
    IF i > Len(serviceKeys) THEN <<>>
    ELSE LET serviceData == Key(stats, serviceKeys[i])
             isHealthy == /\ Prop(serviceData, "status") = Str("healthy")
                          /\ Prop(serviceData, "service_status") = Str("online")
         IN  (IF Truthy(serviceData)
              THEN <<[name |-> serviceDisplayNames[serviceKeys[i]], isHealthy |-> isHealthy]>>
              ELSE <<>>) \o listServices_bothFields(stats, i + 1)

\* a loop over every key of the body: a key the table does not know is
\* listed under its own name
RECURSIVE listServices_allKeys(_, _)
listServices_allKeys(stats, i) ==
    IF i > Len(serviceKeys)
    THEN (IF Truthy(Key(stats, "metrics"))
          THEN <<[name |-> "metrics",
                  isHealthy |-> Prop(Key(stats, "metrics"), "status") = Str("healthy")]>>
          ELSE <<>>)
    ELSE LET serviceData == Key(stats, serviceKeys[i])
             isHealthy == \/ Prop(serviceData, "status") = Str("healthy")
                          \/ Prop(serviceData, "service_status") = Str("online")
         IN  (IF Truthy(serviceData)
              THEN <<[name |-> serviceDisplayNames[serviceKeys[i]], isHealthy |-> isHealthy]>>
              ELSE <<>>) \o listServices_allKeys(stats, i + 1)

\* the loop of statusModule.updateServerList over serviceDisplayNames
RECURSIVE listServices(_, _)
listServices(stats, i) ==
    IF i > Len(serviceKeys) THEN <<>>
    ELSE LET serviceData == Key(stats, serviceKeys[i])
             isHealthy == \/ Prop(serviceData, "status") = Str("healthy")
                          \/ Prop(serviceData, "service_status") = Str("online")
         IN  (IF Truthy(serviceData)
              THEN <<[name |-> serviceDisplayNames[serviceKeys[i]], isHealthy |-> isHealthy]>>
              ELSE <<>>) \o listServices(stats, i + 1)

\* statusModule.updateServerList: the list it returns, which is also the
\* list it renders into #server-list
updateServerList(stats, isLbHealthy) ==
    <<[name |-> "Load Balancer", isHealthy |-> isLbHealthy]>>
        \o (IF Truthy(stats) THEN listServices(stats, 1) ELSE <<>>)

healthyCountOf(serviceStates) ==
    Cardinality({i \in 1..Len(serviceStates) : serviceStates[i].isHealthy})

\* the success-rate test ahead of the unhealthy-service test
overallStatusOf_warningFirst(healthyCount, totalCount, lbData) ==
    IF LessThan(OrElse(Prop(lbData, "success_rate"), Num(10000)), 9500) THEN "WARNING"
    ELSE IF healthyCount < totalCount THEN "DEGRADED"
    ELSE "HEALTHY"

\* the success-rate test with <= 95 in place of < 95
overallStatusOf_inclusive(healthyCount, totalCount, lbData) ==
    IF healthyCount < totalCount THEN "DEGRADED"
    ELSE IF LessThan(OrElse(Prop(lbData, "success_rate"), Num(10000)), 9501) THEN "WARNING"
    ELSE "HEALTHY"

\* the overall status of statusModule.update lines 183-192
overallStatusOf(healthyCount, totalCount, lbData) ==
    IF healthyCount < totalCount THEN "DEGRADED"
    ELSE IF LessThan(OrElse(Prop(lbData, "success_rate"), Num(10000)), 9500) THEN "WARNING"
    ELSE "HEALTHY"

\* statusModule.update, lines 201-202: the cache hit ratio and the sessions
updateStores(w, hit, sessions) ==
    IF ~HasToFixed(hit) THEN Throws(w, "toFixed is not a function")
    ELSE Returns([w EXCEPT !.elements.cacheHitRate = toFixed1(hit.n),
                           !.elements.activeSessions = sessions])

\* lines 195-200: response time, error rate (100 - x of a number is a
\* number) and the database
updateNetwork(stats, w, avg, errorBase, dbIsHealthy) ==
    IF ~HasToFixed(avg) THEN Throws(w, "toFixed is not a function")
    ELSE updateStores(
            [w EXCEPT !.elements.avgResponseTime = toFixed1(avg.n),
                      !.elements.errorRate = toFixed1(10000 - errorBase.n),
                      !.elements.dbStatus = IF dbIsHealthy THEN "ONLINE" ELSE "OFFLINE"],
            OrElse(Prop(Key(stats, "cache"), "hit_ratio"), Num(0)),
            OrElse(Prop(Key(stats, "auth"), "active_session_count"), Num(0)))

\* line 194: the current requests per second
updateRps(stats, w, lbData, rps) ==
    IF ~HasToFixed(rps) THEN Throws(w, "toFixed is not a function")
    ELSE updateNetwork(stats, [w EXCEPT !.elements.currentRps = toFixed1(rps.n)],
            OrElse(Prop(lbData, "avg_response_time_ms"), Num(0)),
            OrElse(Prop(lbData, "success_rate"), Num(10000)),
            Prop(Key(stats, "database"), "status") = Str("healthy"))

\* lines 180-192: success rate, active services and the overall status
updateOverall(stats, w, lbData, serviceStates, successRate) ==
    IF ~HasToFixed(successRate) THEN Throws(w, "toFixed is not a function")
    ELSE updateRps(stats,
            [w EXCEPT !.elements.successRate = toFixed1(successRate.n),
                      !.elements.activeServices =
                          <<healthyCountOf(serviceStates), Len(serviceStates)>>,
                      !.elements.overallStatus =
                          overallStatusOf(healthyCountOf(serviceStates),
                                          Len(serviceStates), lbData)],
            lbData, OrElse(Prop(lbData, "requests_per_second"), Num(0)))

\* lines 173-179: the server list and the total requests
updateTotals(stats, w, lbData, serviceStates) ==
    updateOverall(stats,
        [w EXCEPT !.elements.serverList = serviceStates,
                  !.elements.totalRequests = OrElse(Prop(lbData, "total_requests"), Num(0))],
        lbData, serviceStates, OrElse(Prop(lbData, "success_rate"), Num(0)))

\* a fallback that sets the status and leaves the server list as it was
disconnected_keepsList(w) ==
    Returns([w EXCEPT !.elements.overallStatus = "DISCONNECTED"])

\* lines 166-171: the fallback of a failed fetch or an empty body
disconnected(w) ==
    Returns([w EXCEPT !.elements.overallStatus = "DISCONNECTED",
                      !.elements.serverList = updateServerList(PrimBody(Null), FALSE)])

\* an update that also falls back when the body has no load-balancer entry
statusModule_update_requiresLb(stats, isFetchSuccess, w) ==
    IF ~isFetchSuccess \/ ~Truthy(stats) \/ ~Truthy(Key(stats, "load-balancer"))
    THEN disconnected(w)
    ELSE updateTotals(stats, w, Key(stats, "load-balancer"), updateServerList(stats, TRUE))

statusModule_update(stats, isFetchSuccess, w) ==
    IF ~isFetchSuccess \/ ~Truthy(stats)
    THEN disconnected(w)
    ELSE updateTotals(stats, w, Key(stats, "load-balancer"), updateServerList(stats, TRUE))

(***************************************************************************)
(* Alerts.  A message is the sequence of the pieces its template joins, so *)
(* that String.includes is a search for a contiguous run of pieces: the    *)
(* templates below share no text other than whole pieces.                  *)
(***************************************************************************)
toUpperCase(type) ==
    CASE type = "warning" -> "WARNING" [] type = "error" -> "ERROR" [] OTHER -> "INFO"

\* child.textContent of <strong>TYPE:</strong> message
textContent(alert) == <<toUpperCase(alert.type) \o ":", " ">> \o alert.message

\* text.includes(message)
includes(text, message) ==
    \E i \in 1..(Len(text) - Len(message) + 1) :
        SubSeq(text, i, i + Len(message) - 1) = message

\* addAlert without the search for an alert that shows the message
alertModule_addAlert_noDedup(type, message, alerts) ==
    LET inserted == <<[type |-> type, message |-> message]>> \o alerts
    IN  IF Len(inserted) > maxAlerts
        THEN SubSeq(inserted, 1, Len(inserted) - 1)
        ELSE inserted

\* addAlert that moves an alert that already shows the message to the head
alertModule_addAlert_refreshes(type, message, alerts) ==
    IF \E i \in 1..Len(alerts) : includes(textContent(alerts[i]), message)
    THEN LET at == CHOOSE i \in 1..Len(alerts) : includes(textContent(alerts[i]), message)
         IN  <<alerts[at]>> \o SubSeq(alerts, 1, at - 1) \o SubSeq(alerts, at + 1, Len(alerts))
    ELSE LET inserted == <<[type |-> type, message |-> message]>> \o alerts
         IN  IF Len(inserted) > maxAlerts
             THEN SubSeq(inserted, 1, Len(inserted) - 1)
             ELSE inserted

\* addAlert that removes the first child, the alert just inserted, when the
\* list is over capacity
alertModule_addAlert_evictsNewest(type, message, alerts) ==
    IF \E i \in 1..Len(alerts) : includes(textContent(alerts[i]), message)
    THEN alerts
    ELSE LET inserted == <<[type |-> type, message |-> message]>> \o alerts
         IN  IF Len(inserted) > maxAlerts
             THEN Tail(inserted)
             ELSE inserted

alertModule_addAlert(type, message, alerts) ==
    IF \E i \in 1..Len(alerts) : includes(textContent(alerts[i]), message)
    THEN alerts
    ELSE LET inserted == <<[type |-> type, message |-> message]>> \o alerts
         IN  IF Len(inserted) > maxAlerts
             THEN SubSeq(inserted, 1, Len(inserted) - 1)
             ELSE inserted

\* names.join(', ')
RECURSIVE join(_, _)
join(names, i) ==
    IF i > Len(names) THEN <<>>
    ELSE (IF i > 1 THEN <<", ">> ELSE <<>>) \o <<names[i]>> \o join(names, i + 1)

\* serviceStates.filter(s => !s.isHealthy).map(s => s.name)
RECURSIVE downNames(_, _)
downNames(serviceStates, i) ==
    IF i > Len(serviceStates) THEN <<>>
    ELSE (IF serviceStates[i].isHealthy THEN <<>> ELSE <<serviceStates[i].name>>)
            \o downNames(serviceStates, i + 1)

\* lines 249-253: the alert for the services that are down
checkDown(w, serviceStates, down) ==
    Returns([w EXCEPT !.elements.serverList = serviceStates,
                      !.alerts = IF Len(down) > 0
                                 THEN alertModule_addAlert("error",
                                          join(down, 1) \o <<" service(s) are down.">>, @)
                                 ELSE @])

\* line 246: the alert for a high response time
checkResponseTime(stats, w, avg) ==
    IF GreaterThan(avg, 50000) /\ ~HasToFixed(avg)
    THEN Throws(w, "toFixed is not a function")
    ELSE checkDown([w EXCEPT !.alerts =
                       IF GreaterThan(avg, 50000)
                       THEN alertModule_addAlert("warning",
                                <<"High response time: ", tenthsText(toFixed1(avg.n)), "ms">>, @)
                       ELSE @],
                   updateServerList(stats, TRUE),
                   downNames(updateServerList(stats, TRUE), 1))

\* the test of line 245 with <= 95 in place of < 95
checkSuccessRate_inclusive(stats, w, lbData, rate) ==
    IF LessThan(rate, 9501) /\ ~HasToFixed(rate)
    THEN Throws(w, "Cannot read properties of null (reading 'toFixed')")
    ELSE checkResponseTime(stats,
            [w EXCEPT !.alerts =
                IF LessThan(rate, 9501)
                THEN alertModule_addAlert("warning",
                         <<"Success rate is low: ", tenthsText(toFixed1(rate.n)), "%">>, @)
                ELSE @],
            Prop(lbData, "avg_response_time_ms"))

\* line 245: the alert for a low success rate
checkSuccessRate(stats, w, lbData, rate) ==
    IF LessThan(rate, 9500) /\ ~HasToFixed(rate)
    THEN Throws(w, "Cannot read properties of null (reading 'toFixed')")
    ELSE checkResponseTime(stats,
            [w EXCEPT !.alerts =
                IF LessThan(rate, 9500)
                THEN alertModule_addAlert("warning",
                         <<"Success rate is low: ", tenthsText(toFixed1(rate.n)), "%">>, @)
                ELSE @],
            Prop(lbData, "avg_response_time_ms"))

\* checkAlerts that empties the list when the snapshot raises no alert
alertModule_checkAlerts_clearsResolved(stats, w) ==
    IF ~Truthy(Key(stats, "load-balancer")) THEN Returns(w)
    ELSE IF /\ ~LessThan(Prop(Key(stats, "load-balancer"), "success_rate"), 9500)
            /\ ~GreaterThan(Prop(Key(stats, "load-balancer"), "avg_response_time_ms"), 50000)
            /\ downNames(updateServerList(stats, TRUE), 1) = <<>>
    THEN Returns([w EXCEPT !.alerts = <<>>,
                           !.elements.serverList = updateServerList(stats, TRUE)])
    ELSE checkSuccessRate(stats, w, Key(stats, "load-balancer"),
                          Prop(Key(stats, "load-balancer"), "success_rate"))

alertModule_checkAlerts(stats, w) ==
    IF ~Truthy(Key(stats, "load-balancer")) THEN Returns(w)
    ELSE checkSuccessRate(stats, w, Key(stats, "load-balancer"),
                          Prop(Key(stats, "load-balancer"), "success_rate"))

\* addLog that removes the first child, the entry just inserted, when the
\* log is over capacity
utilityModule_addLog_dropsNewest(message, type, w, time) ==
    LET inserted == <<[time |-> time, message |-> message, type |-> type]>> \o w.logs
    IN  Returns([w EXCEPT !.logs = IF Len(inserted) > maxLogEntries
                                   THEN Tail(inserted)
                                   ELSE inserted])

\* utilityModule.addLog: the entry goes first, the last one leaves over capacity
utilityModule_addLog(message, type, w, time) ==
    LET inserted == <<[time |-> time, message |-> message, type |-> type]>> \o w.logs
    IN  Returns([w EXCEPT !.logs = IF Len(inserted) > maxLogEntries
                                   THEN SubSeq(inserted, 1, Len(inserted) - 1)
                                   ELSE inserted])

(***************************************************************************)
(* The event bus.  A run is the page together with what the step has       *)
(* published and invoked so far; publish calls the handlers subscribed to  *)
(* the event in subscription order, and an exception leaves the forEach.   *)
(***************************************************************************)
EventNames == {"statsUpdated", "fetchError", "reset", "log"}

NoData == [stats |-> PrimBody(Undefined), isFetchSuccess |-> FALSE,
           error |-> "", message |-> "", type |-> ""]
statsData(stats) == [NoData EXCEPT !.stats = stats, !.isFetchSuccess = TRUE]
errorData(msg) == [NoData EXCEPT !.error = msg, !.isFetchSuccess = FALSE]
logData(msg) == [NoData EXCEPT !.message = msg]
logErrorData(msg) == [NoData EXCEPT !.message = msg, !.type = "error"]

\* the callbacks the modules subscribe in their init()
Invoke(handler, data, w, time) ==
    CASE handler = "chartModule.update" -> chartModule_update(data.stats, w, time)
      [] handler = "chartModule.reset" -> chartModule_reset(w)
      [] handler = "statusModule.update" ->
            statusModule_update(data.stats, data.isFetchSuccess, w)
      [] handler = "statusModule.update(null)" ->
            statusModule_update(PrimBody(Null), data.isFetchSuccess, w)
      [] handler = "alertModule.checkAlerts" -> alertModule_checkAlerts(data.stats, w)
      [] handler = "utilityModule.addLog" ->
            utilityModule_addLog(data.message, IF data.type = "" THEN "info" ELSE data.type,
                                 w, time)
      [] handler = "utilityModule.addLog(error)" ->
            utilityModule_addLog("[ERROR] " \o data.error, "error", w, time)

\* the run after one callback returned or threw res
invoked(run, callback, eventName, res) ==
    [run EXCEPT !.w = res.w, !.threw = res.threw, !.error = res.error,
                !.calls = Append(@, [handler |-> callback, eventName |-> eventName,
                                     threw |-> res.threw,
                                     statusBefore |-> run.w.elements.overallStatus,
                                     overallStatus |-> res.w.elements.overallStatus])]

\* events[eventName].forEach(callback => callback(data))
RECURSIVE forEach(_, _, _, _, _, _)
RECURSIVE forEachNext(_, _, _, _, _, _)
forEach(callbacks, i, eventName, data, run, time) ==
    IF i > Len(callbacks) THEN run
    ELSE forEachNext(callbacks, i, eventName, data,
                     invoked(run, callbacks[i], eventName,
                             Invoke(callbacks[i], data, run.w, time)),
                     time)
forEachNext(callbacks, i, eventName, data, after, time) ==
    IF after.threw THEN after
    ELSE forEach(callbacks, i + 1, eventName, data, after, time)

\* eventBus.subscribe
subscribe(subs, eventName, callback) == [subs EXCEPT ![eventName] = Append(@, callback)]

\* eventBus.publish
publish(subs, eventName, data, run, time) ==
    forEach(subs[eventName], 1, eventName, data,
            [run EXCEPT !.published =
                Append(@, [eventName |-> eventName, isFetchSuccess |-> data.isFetchSuccess])],
            time)

\* the page and the empty record of what a step has done
Run0 == [w |-> [elements |-> elements, charts |-> charts,
                alerts |-> alertsContainer, logs |-> logsContainer],
         threw |-> FALSE, error |-> "", published |-> <<>>, calls |-> <<>>]

(***************************************************************************)
(* apiService.  p is the service with the browser's timers and requests.   *)
(***************************************************************************)
Poller == [monitoringEnabled |-> monitoringEnabled, fetchIntervalId |-> fetchIntervalId,
           timers |-> timers, nextTimerId |-> nextTimerId, inflight |-> inflight]

\* fetchAllStats without the monitoringEnabled test
fetchAllStats_unguarded(p, by, time) ==
    [p EXCEPT !.inflight = Append(@, [by |-> by, at |-> time])]

\* fetchAllStats up to its first await: nothing when monitoring is off,
\* else one request to /stats is on its way
fetchAllStats(p, by, time) ==
    IF ~p.monitoringEnabled THEN p
    ELSE [p EXCEPT !.inflight = Append(@, [by |-> by, at |-> time])]

\* start() and stop() without the clearInterval
clearFetchInterval_forgets(p) == p

\* if (this.fetchIntervalId) clearInterval(this.fetchIntervalId)
clearFetchInterval(p) ==
    IF p.fetchIntervalId # 0 THEN [p EXCEPT !.timers = @ \ {p.fetchIntervalId}] ELSE p

\* this.fetchIntervalId = setInterval(...)
armFetchInterval(p) ==
    [p EXCEPT !.fetchIntervalId = p.nextTimerId,
              !.timers = @ \cup {p.nextTimerId},
              !.nextTimerId = @ + 1]

\* start() without the immediate fetch: the first request waits for the
\* interval
apiService_start_waitsForInterval(p, run, subs, by, time) ==
    [p |-> armFetchInterval(clearFetchInterval([p EXCEPT !.monitoringEnabled = TRUE])),
     run |-> publish(subs, "log", logData("Monitoring started."), run, time)]

apiService_start(p, run, subs, by, time) ==
    [p |-> armFetchInterval(clearFetchInterval(
               fetchAllStats([p EXCEPT !.monitoringEnabled = TRUE], by, time))),
     run |-> publish(subs, "log", logData("Monitoring started."), run, time)]

\* stop() that only lowers the flag and leaves the interval armed
apiService_stop_keepsTimer(p, run, subs, time) ==
    [p |-> [p EXCEPT !.monitoringEnabled = FALSE],
     run |-> publish(subs, "log", logData("Monitoring paused."), run, time)]

apiService_stop(p, run, subs, time) ==
    [p |-> clearFetchInterval([p EXCEPT !.monitoringEnabled = FALSE]),
     run |-> publish(subs, "log", logData("Monitoring paused."), run, time)]

\* resetAllStats: the backend has no reset, the promise resolves to true
apiService_resetAllStats == TRUE

\* catch (error) of fetchAllStats, around the publish of statsUpdated
catchError(tried, subs, time) ==
    IF tried.threw
    THEN publish(subs, "fetchError", errorData(tried.error),
                 [tried EXCEPT !.threw = FALSE, !.error = ""], time)
    ELSE tried

\* a fetchAllStats that drops the result when monitoring was turned off
\* while the request was in flight
fetchSettled_dropsWhenStopped(outcome, stats, run, subs, time) ==
    IF ~monitoringEnabled THEN run
    ELSE IF outcome = "ok"
    THEN catchError(publish(subs, "statsUpdated", statsData(stats), run, time), subs, time)
    ELSE publish(subs, "fetchError", errorData("Backend communication error"), run, time)

\* a fetchAllStats without the response.ok test: an error page is decoded
\* and published as a snapshot
fetchSettled_ignoresStatus(outcome, stats, run, subs, time) ==
    IF outcome \in {"ok", "http"}
    THEN catchError(publish(subs, "statsUpdated", statsData(stats), run, time), subs, time)
    ELSE publish(subs, "fetchError", errorData("Failed to fetch"), run, time)

\* the rest of fetchAllStats once the request has settled
(* outcome: "ok" (2xx and a body that parses), "http" (response.ok false),  *)
(* "network" (fetch rejects), "parse" (response.json() rejects)             *)
fetchSettled(outcome, stats, run, subs, time) ==
    IF outcome = "ok"
    THEN catchError(publish(subs, "statsUpdated", statsData(stats), run, time), subs, time)
    ELSE publish(subs, "fetchError",
                 errorData(CASE outcome = "http" -> "Backend communication error"
                             [] outcome = "network" -> "Failed to fetch"
                             [] OTHER -> "Unexpected token < in JSON at position 0"),
                 run, time)

(***************************************************************************)
(* Bodies the backend answers with.                                        *)
(***************************************************************************)
lbPayload(rate, avg, rps, total) ==
    Obj([NoProps EXCEPT !["success_rate"] = rate, !["avg_response_time_ms"] = avg,
                        !["requests_per_second"] = rps, !["total_requests"] = total])
statusPayload(status) == Obj([NoProps EXCEPT !["status"] = Str(status)])
onlinePayload == Obj([NoProps EXCEPT !["service_status"] = Str("online")])
hitRatioPayload(ratio) == Obj([NoProps EXCEPT !["hit_ratio"] = Num(ratio)])

\* JSON null
NullBody == PrimBody(Null)
\* load balancer at 99.2 %, 40 ms; auth and database healthy
HealthyBody ==
    Body([NoKeys EXCEPT
        !["load-balancer"] = lbPayload(Num(9920), Num(4000), Num(1200), Num(50000)),
        !["auth"] = statusPayload("healthy"),
        !["database"] = statusPayload("healthy")])
\* load balancer at 80.0 %, 600 ms; auth degraded
DegradedBody ==
    Body([NoKeys EXCEPT
        !["load-balancer"] = lbPayload(Num(8000), Num(60000), Num(1200), Num(50000)),
        !["auth"] = statusPayload("degraded"),
        !["database"] = statusPayload("healthy")])
\* a success rate that is not a number
MalformedBody ==
    Body([NoKeys EXCEPT
        !["load-balancer"] = lbPayload(Str("n/a"), Num(4000), Num(1200), Num(50000)),
        !["auth"] = statusPayload("healthy")])

\* the empty object {}
EmptyBody == Body(NoKeys)

\* load balancer at 99.2 %, 40 ms and nothing else reported; auth and
\* database healthy; a cache entry that carries only its hit ratio (80)
HitRatioOnlyBody ==
    Body([NoKeys EXCEPT
        !["load-balancer"] = lbPayload(Num(9920), Num(4000), Undefined, Undefined),
        !["auth"] = statusPayload("healthy"),
        !["database"] = statusPayload("healthy"),
        !["cache"] = hitRatioPayload(8000)])

Bodies == {NullBody, EmptyBody, HealthyBody, DegradedBody, MalformedBody}
Outcomes == {"ok", "http", "network", "parse"}

(***************************************************************************)
(* The state before DOMContentLoaded: the object literals of the script    *)
(* and the page as index.html ships it.                                    *)
(***************************************************************************)
Init ==
    /\ pc = "loading"
    /\ events = [e \in EventNames |-> <<>>]
    /\ monitoringEnabled = TRUE
    /\ fetchIntervalId = 0
    /\ timers = {}
    /\ nextTimerId = 1
    /\ inflight = <<>>
    /\ elements = [overallStatus |-> "INITIALIZING", activeServices |-> <<0, 0>>,
                   totalRequests |-> Num(0), successRate |-> 1000, currentRps |-> 0,
                   avgResponseTime |-> 0, errorRate |-> 0, dbStatus |-> "N/A",
                   cacheHitRate |-> 0, activeSessions |-> Num(0), serverList |-> <<>>]
    /\ charts = [responseTime |-> [labels |-> <<>>, data |-> <<>>],
                 throughput |-> [labels |-> <<>>, data |-> <<>>]]
    /\ alertsContainer = <<>>
    /\ logsContainer = <<>>
    /\ now = 0
    /\ lastOp = "none"
    /\ lastFetch = [outcome |-> "none", stats |-> PrimBody(Undefined), by |-> "none", at |-> 0]
    /\ published = <<>>
    /\ calls = <<>>

\* what a step leaves behind
Commit(op, p, run, fetched) ==
    /\ monitoringEnabled' = p.monitoringEnabled
    /\ fetchIntervalId' = p.fetchIntervalId
    /\ timers' = p.timers
    /\ nextTimerId' = p.nextTimerId
    /\ inflight' = p.inflight
    /\ elements' = run.w.elements
    /\ charts' = run.w.charts
    /\ alertsContainer' = run.w.alerts
    /\ logsContainer' = run.w.logs
    /\ now' = now + 1
    /\ lastOp' = op
    /\ lastFetch' = fetched
    /\ published' = run.published
    /\ calls' = run.calls

\* statusModule.setInitialState
setInitialState(w) ==
    [w EXCEPT !.elements = [overallStatus |-> "CONNECTING...", activeServices |-> <<0, 0>>,
                            totalRequests |-> Num(0), successRate |-> 0, currentRps |-> 0,
                            avgResponseTime |-> 0, errorRate |-> 0, dbStatus |-> "N/A",
                            cacheHitRate |-> 0, activeSessions |-> Num(0),
                            serverList |-> <<>>]]

\* chartModule.init that subscribes update to fetchError as well
subscriptions_chartOnError ==
    LET s1 == subscribe(events, "statsUpdated", "chartModule.update")
        s2 == subscribe(s1, "fetchError", "chartModule.update")
        s3 == subscribe(s2, "reset", "chartModule.reset")
        s4 == subscribe(s3, "statsUpdated", "statusModule.update")
        s5 == subscribe(s4, "fetchError", "statusModule.update(null)")
        s6 == subscribe(s5, "statsUpdated", "alertModule.checkAlerts")
        s7 == subscribe(s6, "log", "utilityModule.addLog")
    IN  subscribe(s7, "fetchError", "utilityModule.addLog(error)")

\* utilityModule.init without the subscription to fetchError
subscriptions_errorsNotLogged ==
    LET s1 == subscribe(events, "statsUpdated", "chartModule.update")
        s2 == subscribe(s1, "reset", "chartModule.reset")
        s3 == subscribe(s2, "statsUpdated", "statusModule.update")
        s4 == subscribe(s3, "fetchError", "statusModule.update(null)")
        s5 == subscribe(s4, "statsUpdated", "alertModule.checkAlerts")
    IN  subscribe(s5, "log", "utilityModule.addLog")

\* the subscriptions of chartModule.init, statusModule.init, alertModule.init
\* and utilityModule.init, in the order main() makes them
subscriptions ==
    LET s1 == subscribe(events, "statsUpdated", "chartModule.update")
        s2 == subscribe(s1, "reset", "chartModule.reset")
        s3 == subscribe(s2, "statsUpdated", "statusModule.update")
        s4 == subscribe(s3, "fetchError", "statusModule.update(null)")
        s5 == subscribe(s4, "statsUpdated", "alertModule.checkAlerts")
        s6 == subscribe(s5, "log", "utilityModule.addLog")
    IN  subscribe(s6, "fetchError", "utilityModule.addLog(error)")

\* what a step of the service leaves behind: done = [p, run]
CommitBoth(op, done) == Commit(op, done.p, done.run, lastFetch)

\* main(), on DOMContentLoaded
main ==
    /\ pc = "loading"
    /\ now < MaxSteps
    /\ pc' = "ready"
    /\ events' = subscriptions
    /\ CommitBoth("main",
          apiService_start(Poller,
              publish(subscriptions, "log", logData("Monitoring dashboard initialized."),
                      [Run0 EXCEPT !.w = setInitialState(@)], now),
              subscriptions, "start", now))

\* apiService.start()
start ==
    /\ pc = "ready"
    /\ now < MaxSteps
    /\ CommitBoth("start", apiService_start(Poller, Run0, events, "start", now))
    /\ UNCHANGED <<pc, events>>

\* apiService.stop()
stop ==
    /\ pc = "ready"
    /\ now < MaxSteps
    /\ CommitBoth("stop", apiService_stop(Poller, Run0, events, now))
    /\ UNCHANGED <<pc, events>>

\* controlsModule.toggleMonitoring, a click on the toggle button
toggleMonitoring ==
    /\ pc = "ready"
    /\ now < MaxSteps
    /\ CommitBoth("toggleMonitoring",
          IF ~monitoringEnabled
          THEN apiService_start([Poller EXCEPT !.monitoringEnabled = TRUE],
                                Run0, events, "toggle", now)
          ELSE apiService_stop([Poller EXCEPT !.monitoringEnabled = FALSE],
                               Run0, events, now))
    /\ UNCHANGED <<pc, events>>

\* controlsModule.refresh, a click on the refresh button
refresh ==
    /\ pc = "ready"
    /\ now < MaxSteps
    /\ Commit("refresh", fetchAllStats(Poller, "refresh", now),
              publish(events, "log", logData("Manual refresh triggered."), Run0, now),
              lastFetch)
    /\ UNCHANGED <<pc, events>>

\* controlsModule.reset after its first log, with the result of resetAllStats
resetWith(success, run, time) ==
    IF success
    THEN [p |-> fetchAllStats(Poller, "reset", time),
          run |-> publish(events, "reset", NoData,
                      publish(events, "log", logData("Statistics have been reset."),
                              run, time),
                      time)]
    ELSE [p |-> Poller,
          run |-> publish(events, "log", logErrorData("Failed to reset stats."), run, time)]

\* controlsModule.reset, a click on the reset button; resetAllStats settles
\* without a request, so the awaits resume before any other event
reset ==
    /\ pc = "ready"
    /\ now < MaxSteps
    /\ CommitBoth("reset",
          resetWith(apiService_resetAllStats,
                    publish(events, "log", logData("Resetting statistics..."), Run0, now),
                    now))
    /\ UNCHANGED <<pc, events>>

\* the interval armed by start() fires
timerTick ==
    /\ pc = "ready"
    /\ now < MaxSteps
    /\ \E id \in timers :
          Commit("timerTick", fetchAllStats(Poller, "timer", now), Run0, lastFetch)
    /\ UNCHANGED <<pc, events>>

\* a fetchAllStats that discards the answer of a request issued before the
\* one displayed
settle_dropsStale(i, outcome, stats) ==
    Commit("fetchComplete",
           [Poller EXCEPT !.inflight =
               SubSeq(inflight, 1, i - 1) \o SubSeq(inflight, i + 1, Len(inflight))],
           IF lastFetch.outcome # "none" /\ inflight[i].at < lastFetch.at
           THEN Run0
           ELSE fetchSettled(outcome, stats, Run0, events, now),
           [outcome |-> outcome,
            stats |-> IF outcome = "ok" THEN stats ELSE PrimBody(Undefined),
            by |-> inflight[i].by, at |-> inflight[i].at])

\* a fetchAllStats that stops the polling after a failure
settle_haltsOnFailure(i, outcome, stats) ==
    Commit("fetchComplete",
           [Poller EXCEPT !.inflight =
                              SubSeq(inflight, 1, i - 1) \o SubSeq(inflight, i + 1, Len(inflight)),
                          !.timers = IF outcome = "ok" THEN @ ELSE {}],
           fetchSettled(outcome, stats, Run0, events, now),
           [outcome |-> outcome,
            stats |-> IF outcome = "ok" THEN stats ELSE PrimBody(Undefined),
            by |-> inflight[i].by, at |-> inflight[i].at])

\* request i settles with an outcome and fetchAllStats resumes after its await
settle(i, outcome, stats) ==
    Commit("fetchComplete",
           [Poller EXCEPT !.inflight =
               SubSeq(inflight, 1, i - 1) \o SubSeq(inflight, i + 1, Len(inflight))],
           fetchSettled(outcome, stats, Run0, events, now),
           [outcome |-> outcome,
            stats |-> IF outcome = "ok" THEN stats ELSE PrimBody(Undefined),
            by |-> inflight[i].by, at |-> inflight[i].at])

\* any request in flight settles, in any order, whether monitoring is on or off
fetchComplete ==
    /\ pc = "ready"
    /\ now < MaxSteps
    /\ \E i \in 1..Len(inflight), outcome \in Outcomes, stats \in Bodies :
          /\ outcome # "ok" => stats = NullBody
          /\ settle(i, outcome, stats)
    /\ UNCHANGED <<pc, events>>

Next ==
    \/ main
    \/ start
    \/ stop
    \/ toggleMonitoring
    \/ refresh
    \/ reset
    \/ timerTick
    \/ fetchComplete

Spec == Init /\ [][Next]_vars

(***************************************************************************)
(* The derivation of one snapshot: the page loads and the first request    *)
(* is answered with a body drawn from Snapshots.                           *)
(***************************************************************************)
\* success rates: absent, null, 0, 80.0, 94.96, 95.0, 99.2
Rates == {Undefined, Null, Num(0), Num(8000), Num(9496), Num(9500), Num(9920)}
\* response times: absent, 40 ms, 500 ms, 600 ms
ResponseTimes == {Undefined, Num(4000), Num(50000), Num(60000)}

LbPayloads ==
    {Prim(Undefined)} \cup
    {lbPayload(rate, avg, Num(1200), Num(50000)) : rate \in Rates, avg \in ResponseTimes}

\* what a service key may hold: nothing, null, a number, a string, and
\* objects with and without the status fields
ServicePayloads ==
    {Prim(Undefined), Prim(Null), Prim(Num(500)), Prim(Str("up")),
     statusPayload("healthy"), statusPayload("degraded"), onlinePayload,
     hitRatioPayload(8000)}

Snapshots ==
    {Body([NoKeys EXCEPT !["load-balancer"] = lb, !["auth"] = a, !["database"] = d,
                         !["cache"] = c, !["metrics"] = m]) :
        lb \in LbPayloads, a \in ServicePayloads, d \in ServicePayloads,
        c \in ServicePayloads, m \in {Prim(Undefined), hitRatioPayload(8000)}}
    \cup {HitRatioOnlyBody}

\* the first response arrives, 2xx, with a snapshot
deriveHealth ==
    /\ pc = "ready"
    /\ inflight # <<>>
    /\ \E stats \in Snapshots : settle(1, "ok", stats)
    /\ UNCHANGED <<pc, events>>

NextDerive ==
    \/ main
    \/ deriveHealth

SpecDerive == Init /\ [][NextDerive]_vars

(***************************************************************************)
(* The alerts of successive poll cycles: the page loads, the interval      *)
(* fires and each request is answered with a body drawn from AlertBodies.  *)
(***************************************************************************)
\* 80.0 %, 600 ms, 12 req/s; auth and database degraded
AuthDatabaseDownBody ==
    Body([NoKeys EXCEPT
        !["load-balancer"] = lbPayload(Num(8000), Num(60000), Num(1200), Num(50000)),
        !["auth"] = statusPayload("degraded"),
        !["database"] = statusPayload("degraded")])
\* 90.0 %, 700 ms, 13 req/s; auth healthy, database degraded
DatabaseDownBody ==
    Body([NoKeys EXCEPT
        !["load-balancer"] = lbPayload(Num(9000), Num(70000), Num(1300), Num(50000)),
        !["auth"] = statusPayload("healthy"),
        !["database"] = statusPayload("degraded")])
\* 99.2 %, 40 ms, 14 req/s; cache degraded
CacheDownBody ==
    Body([NoKeys EXCEPT
        !["load-balancer"] = lbPayload(Num(9920), Num(4000), Num(1400), Num(50000)),
        !["cache"] = statusPayload("degraded")])
\* 85.0 %, 800 ms, 15 req/s; auth degraded, database healthy
AuthDownBody ==
    Body([NoKeys EXCEPT
        !["load-balancer"] = lbPayload(Num(8500), Num(80000), Num(1500), Num(50000)),
        !["auth"] = statusPayload("degraded"),
        !["database"] = statusPayload("healthy")])

\* 80.0 %, 40 ms, 16 req/s; auth and database healthy
LowRateBody ==
    Body([NoKeys EXCEPT
        !["load-balancer"] = lbPayload(Num(8000), Num(4000), Num(1600), Num(50000)),
        !["auth"] = statusPayload("healthy"),
        !["database"] = statusPayload("healthy")])

AlertBodies == {HealthyBody, AuthDatabaseDownBody, DatabaseDownBody, CacheDownBody,
                AuthDownBody, LowRateBody}

\* the oldest request is answered, 2xx, with a body that raises alerts
deriveAlerts ==
    /\ pc = "ready"
    /\ now < MaxSteps
    /\ inflight # <<>>
    /\ \E stats \in AlertBodies : settle(1, "ok", stats)
    /\ UNCHANGED <<pc, events>>

NextAlerts ==
    \/ main
    \/ timerTick
    \/ reset
    \/ deriveAlerts

SpecAlerts == Init /\ [][NextAlerts]_vars

(***************************************************************************)
(* The interval under the browser's scheduling: while it is armed it fires *)
(* again and again.                                                        *)
(***************************************************************************)
SpecFair == Init /\ [][Next]_vars /\ WF_vars(timerTick)

(***************************************************************************)
(* Reset with the resetAllStats of the revisions of the script kept in     *)
(* dashboard-ui/index.html, which posts to /reset-stats: the promise       *)
(* resolves to true once the request is answered, whatever the status, and *)
(* to false when the request is rejected.  Everything else is the script   *)
(* above.                                                                  *)
(***************************************************************************)
\* await fetch(config.apiEndpoint + '/reset-stats', { method: 'POST' })
postResetStats(p, time) ==
    [p EXCEPT !.inflight = Append(@, [by |-> "resetAllStats", at |-> time])]

\* controlsModule.reset up to its await: the first log and the request
resetClicked ==
    /\ pc = "ready"
    /\ now < MaxSteps
    /\ Commit("reset", postResetStats(Poller, now),
              publish(events, "log", logData("Resetting statistics..."), Run0, now),
              lastFetch)
    /\ UNCHANGED <<pc, events>>

\* a reset that goes on as after a success whatever resetAllStats returned
resetResumed_ignoresResult(success, p, run, time) ==
    [p |-> fetchAllStats(p, "reset", time),
     run |-> publish(events, "reset", NoData,
                 publish(events, "log", logData("Statistics have been reset."),
                         run, time),
                 time)]

\* controlsModule.reset after its await, with what resetAllStats returned
resetResumed(success, p, run, time) ==
    IF success
    THEN [p |-> fetchAllStats(p, "reset", time),
          run |-> publish(events, "reset", NoData,
                      publish(events, "log", logData("Statistics have been reset."),
                              run, time),
                      time)]
    ELSE [p |-> p,
          run |-> publish(events, "log", logErrorData("Failed to reset stats."), run, time)]

\* reset request i is answered (resetAllStats returns true) or rejected
\* (its catch returns false)
resetSettled(i, delivered) ==
    CommitBoth(IF delivered THEN "resetDelivered" ELSE "resetRejected",
               resetResumed(delivered,
                   [Poller EXCEPT !.inflight =
                       SubSeq(inflight, 1, i - 1) \o SubSeq(inflight, i + 1, Len(inflight))],
                   Run0, now))

resetAnswered ==
    /\ pc = "ready"
    /\ now < MaxSteps
    /\ \E i \in 1..Len(inflight), delivered \in BOOLEAN :
          /\ inflight[i].by = "resetAllStats"
          /\ resetSettled(i, delivered)
    /\ UNCHANGED <<pc, events>>

\* a request to /stats is answered with a snapshot
statsAnswered ==
    /\ pc = "ready"
    /\ now < MaxSteps
    /\ \E i \in 1..Len(inflight), stats \in {HealthyBody, DegradedBody} :
          /\ inflight[i].by # "resetAllStats"
          /\ settle(i, "ok", stats)
    /\ UNCHANGED <<pc, events>>

NextResetRequest ==
    \/ main
    \/ timerTick
    \/ resetClicked
    \/ resetAnswered
    \/ statsAnswered

SpecResetRequest == Init /\ [][NextResetRequest]_vars

(***************************************************************************)
(* A long session: the page loads and the refresh button is clicked again  *)
(* and again, each click once the previous request has been answered, with *)
(* a healthy snapshot or, at most MaxFailures times, with a network error. *)
(***************************************************************************)
\* Steps of a long session: enough for 31 chart points and 51 log entries.
MaxRun == 104
\* Failed requests shown in the log of a long session.
MaxFailures == 1

\* the entries of the log that report an error
errorEntries == {i \in 1..Len(logsContainer) : logsContainer[i].type = "error"}

\* controlsModule.refresh, clicked while no request is in flight
refreshIdle ==
    /\ pc = "ready"
    /\ now < MaxRun
    /\ inflight = <<>>
    /\ Commit("refresh", fetchAllStats(Poller, "refresh", now),
              publish(events, "log", logData("Manual refresh triggered."), Run0, now),
              lastFetch)
    /\ UNCHANGED <<pc, events>>

\* the request in flight is answered
answered ==
    /\ pc = "ready"
    /\ now < MaxRun
    /\ inflight # <<>>
    /\ \/ settle(1, "ok", HealthyBody)
       \/ /\ Cardinality(errorEntries) < MaxFailures
          /\ settle(1, "network", NullBody)
    /\ UNCHANGED <<pc, events>>

NextLongRun ==
    \/ main
    \/ refreshIdle
    \/ answered

SpecLongRun == Init /\ [][NextLongRun]_vars

(***************************************************************************)
(* A service that stays down: the page loads, the interval fires once the  *)
(* previous request has been answered, and each answer is a snapshot with  *)
(* a load-balancer payload drawn from PersistBodies.                       *)
(***************************************************************************)
\* Steps of a session of polls: main, then four polls and their answers.
MaxPolls == 8

\* 70.0 %, 900 ms, 17 req/s; auth degraded, database healthy
AuthSlowBody ==
    Body([NoKeys EXCEPT
        !["load-balancer"] = lbPayload(Num(7000), Num(90000), Num(1700), Num(50000)),
        !["auth"] = statusPayload("degraded"),
        !["database"] = statusPayload("healthy")])
\* 60.0 %, 1000 ms, 18 req/s; auth degraded, database healthy
AuthSlowerBody ==
    Body([NoKeys EXCEPT
        !["load-balancer"] = lbPayload(Num(6000), Num(100000), Num(1800), Num(50000)),
        !["auth"] = statusPayload("degraded"),
        !["database"] = statusPayload("healthy")])

PersistBodies == {AuthDownBody, AuthSlowBody, AuthSlowerBody, DatabaseDownBody, LowRateBody}

\* the interval fires while no request is in flight
pollTick ==
    /\ pc = "ready"
    /\ now < MaxPolls
    /\ inflight = <<>>
    /\ \E id \in timers :
          Commit("timerTick", fetchAllStats(Poller, "timer", now), Run0, lastFetch)
    /\ UNCHANGED <<pc, events>>

\* the request in flight is answered, 2xx, with a snapshot
pollAnswered ==
    /\ pc = "ready"
    /\ now < MaxPolls
    /\ inflight # <<>>
    /\ \E stats \in PersistBodies : settle(1, "ok", stats)
    /\ UNCHANGED <<pc, events>>

NextPersist ==
    \/ main
    \/ pollTick
    \/ pollAnswered

SpecPersist == Init /\ [][NextPersist]_vars

(***************************************************************************)
(* Properties.                                                             *)
(***************************************************************************)
\* the names of the events the last step published
publishedNames == {published[i].eventName : i \in 1..Len(published)}

\* the last step was a request settling
Settled == lastOp = "fetchComplete"
SettledOk == Settled /\ lastFetch.outcome = "ok"
SettledFailed == Settled /\ lastFetch.outcome \in {"http", "network", "parse"}

\* C1: at most one recurring poll timer is armed in every state, and right
\* after start() (from main, called directly, or from toggling monitoring on)
\* exactly one is armed: the one fetchIntervalId holds.
C1_AtMostOneTimer ==
    /\ Cardinality(timers) <= 1
    /\ (lastOp \in {"main", "start"} \/ (lastOp = "toggleMonitoring" /\ monitoringEnabled))
          => (fetchIntervalId # 0 /\ timers = {fetchIntervalId})

\* start() ran twice in a row (main's start, then start) and one timer is armed
C1_StartedTwice ==
    /\ lastOp = "start"
    /\ Len(logsContainer) >= 2
    /\ logsContainer[1].message = "Monitoring started."
    /\ logsContainer[2].message = "Monitoring started."
    /\ nextTimerId = 3
    /\ timers = {2}

\* C2: stop() leaves the poller STOPPED, and while it is STOPPED (after
\* stop() and until the next start()) no recurring poll timer is armed.
C2_StopCancelsTimer ==
    /\ lastOp = "stop" => ~monitoringEnabled
    /\ ~monitoringEnabled => timers = {}

\* stopped after a timer had been armed, and another operation ran since
C2_StoppedAndIdle ==
    /\ ~monitoringEnabled
    /\ fetchIntervalId # 0
    /\ lastOp \in {"refresh", "reset", "fetchComplete"}
    /\ timers = {}

\* C3: when the poller is STOPPED, a timer tick, a manual refresh and the
\* follow-up fetch of reset issue no request and publish neither
\* statsUpdated nor fetchError.
C3_FetchNoOpWhenStopped ==
    [][(~monitoringEnabled /\ lastOp' \in {"refresh", "reset", "timerTick"})
          => /\ inflight' = inflight
             /\ \A i \in 1..Len(published') :
                   published'[i].eventName \notin {"statsUpdated", "fetchError"}]_vars

\* a reset ran while stopped, right after a manual refresh while stopped
C3_RefreshedAndResetWhileStopped ==
    /\ ~monitoringEnabled
    /\ lastOp = "reset"
    /\ Len(logsContainer) >= 3
    /\ logsContainer[3].message = "Manual refresh triggered."
    /\ publishedNames = {"log", "reset"}

\* C4: a request that settles after stop() still publishes its result:
\* statsUpdated first for a 2xx parseable answer, fetchError for a failure,
\* and the subscribers are invoked.
C4_InFlightResultPublished ==
    (Settled /\ ~monitoringEnabled) =>
        /\ Len(published) >= 1
        /\ published[1].eventName =
              (IF lastFetch.outcome = "ok" THEN "statsUpdated" ELSE "fetchError")
        /\ Len(calls) >= 1

\* a snapshot was published while the poller was STOPPED
C4_SnapshotAfterStop ==
    /\ SettledOk
    /\ ~monitoringEnabled
    /\ "statsUpdated" \in publishedNames
    /\ elements.overallStatus = "HEALTHY"

\* what is left of a settled request once the text of the newest log entry
\* (the error message) is blanked
Downstream(run) ==
    [run EXCEPT !.w.logs = IF @ = <<>> THEN @
                           ELSE <<[Head(@) EXCEPT !.message = ""]>> \o Tail(@),
                !.error = ""]

\* C5: a 2xx answer with a parseable body publishes statsUpdated with
\* isFetchSuccess true; a non-2xx status, a network failure and a parse
\* failure each publish exactly fetchError with isFetchSuccess false, and
\* from any page the three leave the same page but for the logged message.
C5_OutcomeToEvent ==
    /\ SettledOk =>
          (Len(published) >= 1
             /\ published[1] = [eventName |-> "statsUpdated", isFetchSuccess |-> TRUE])
    /\ SettledFailed =>
          published = <<[eventName |-> "fetchError", isFetchSuccess |-> FALSE]>>
    /\ pc = "ready" =>
          \A o1, o2 \in Outcomes \ {"ok"} :
              Downstream(fetchSettled(o1, NullBody, Run0, events, now))
                  = Downstream(fetchSettled(o2, NullBody, Run0, events, now))

\* a non-2xx answer was published as a failure
C5_HttpErrorPublished ==
    /\ Settled
    /\ lastFetch.outcome = "http"
    /\ publishedNames = {"fetchError"}
    /\ logsContainer[1].message = "[ERROR] Backend communication error"

\* C6: after every fetchError the overall status is DISCONNECTED and the
\* server list is exactly the Load Balancer, offline.
C6_FetchFailedFallback ==
    "fetchError" \in publishedNames =>
        /\ elements.overallStatus = "DISCONNECTED"
        /\ elements.serverList = <<[name |-> "Load Balancer", isHealthy |-> FALSE]>>

\* a failure after a snapshot that had listed several services
C6_FailedAfterSnapshot ==
    /\ SettledFailed
    /\ Len(charts.responseTime.data) >= 1
    /\ elements.activeServices[2] >= 3
    /\ elements.overallStatus = "DISCONNECTED"

\* C7 as stated: a statsUpdated event whose subscribers all return, whatever
\* the decoded body, never leaves the overall status DISCONNECTED.
C7_SnapshotNeverDisconnected ==
    (SettledOk /\ publishedNames = {"statsUpdated"})
        => elements.overallStatus # "DISCONNECTED"

\* C7 amended: with a decoded body that is truthy (an object, the empty one
\* included), statusModule.update on statsUpdated sets HEALTHY, WARNING or
\* DEGRADED when it returns, and when it throws the status is DISCONNECTED
\* only if it already was.
C7_TruthySnapshotNeverDisconnected ==
    (SettledOk /\ Truthy(lastFetch.stats)) =>
        \A i \in 1..Len(calls) :
            (calls[i].handler = "statusModule.update") =>
                IF calls[i].threw
                THEN calls[i].overallStatus = "DISCONNECTED"
                        => calls[i].statusBefore = "DISCONNECTED"
                ELSE calls[i].overallStatus \in {"HEALTHY", "WARNING", "DEGRADED"}

\* the empty object was received after a failure and shown as HEALTHY
C7_EmptyObjectHealthy ==
    /\ SettledOk
    /\ lastFetch.stats = EmptyBody
    /\ Len(calls) >= 2
    /\ calls[2].statusBefore = "DISCONNECTED"
    /\ elements.overallStatus = "HEALTHY"

\* the snapshot of the last settled request, as the claims describe it
ReportsHealthy(payload) ==
    \/ Prop(payload, "status") = Str("healthy")
    \/ Prop(payload, "service_status") = Str("online")
SomeUnhealthy(stats) ==
    \E k \in DOMAIN serviceDisplayNames :
        Truthy(Key(stats, k)) /\ ~ReportsHealthy(Key(stats, k))
ReportedRate(stats) == Prop(Key(stats, "load-balancer"), "success_rate")

\* statusModule.update returned on the snapshot; Derived is the status it set
DerivedSnapshot ==
    /\ SettledOk
    /\ Truthy(lastFetch.stats)
    /\ Len(calls) >= 2
    /\ calls[2].handler = "statusModule.update"
    /\ ~calls[2].threw
Derived == calls[2].overallStatus

\* C8: a snapshot that lists at least one recognized service as unhealthy
\* derives DEGRADED, whatever the load balancer's success rate.
C8_UnhealthyIsDegraded ==
    (DerivedSnapshot /\ SomeUnhealthy(lastFetch.stats)) => Derived = "DEGRADED"

\* an unhealthy service together with a success rate of 80.0
C8_UnhealthyWithLowRate ==
    /\ DerivedSnapshot
    /\ SomeUnhealthy(lastFetch.stats)
    /\ ReportedRate(lastFetch.stats) = Num(8000)
    /\ Derived = "DEGRADED"

\* C9 as stated: a snapshot with every listed service healthy and a reported
\* success rate below 95, a rate of 0 included, derives WARNING.
C9_LowRateIsWarning ==
    (DerivedSnapshot
        /\ ~SomeUnhealthy(lastFetch.stats)
        /\ ReportedRate(lastFetch.stats).t = "number"
        /\ ReportedRate(lastFetch.stats).n < 9500)
    => Derived = "WARNING"

\* C10: a snapshot with every listed service healthy and a success rate of
\* at least 95, or none reported, derives HEALTHY.
C10_AllHealthyIsHealthy ==
    (DerivedSnapshot
        /\ ~SomeUnhealthy(lastFetch.stats)
        /\ \/ ReportedRate(lastFetch.stats).t = "undefined"
           \/ (ReportedRate(lastFetch.stats).t = "number"
                  /\ ReportedRate(lastFetch.stats).n >= 9500))
    => Derived = "HEALTHY"

\* healthy services and a success rate of exactly 95.0
C10_HealthyAtThreshold ==
    /\ DerivedSnapshot
    /\ Key(lastFetch.stats, "auth") = statusPayload("healthy")
    /\ Key(lastFetch.stats, "database") = onlinePayload
    /\ ~SomeUnhealthy(lastFetch.stats)
    /\ ReportedRate(lastFetch.stats) = Num(9500)
    /\ Derived = "HEALTHY"

\* every subscriber of statsUpdated returned on the snapshot
SnapshotHandled == SettledOk /\ publishedNames = {"statsUpdated"}

\* C11 as stated: the snapshot with the load balancer at 99.2 % and 40 ms,
\* auth and database healthy and a cache entry of only a hit ratio derives
\* HEALTHY with 3 of 3 services and raises no alert.
C11_HitRatioOnlyIsHealthy ==
    (SettledOk /\ lastFetch.stats = HitRatioOnlyBody) =>
        /\ elements.overallStatus = "HEALTHY"
        /\ elements.activeServices = <<3, 3>>
        /\ alertsContainer = <<>>

\* a recognized key that is present in the body with a payload that reports
\* neither status healthy nor service_status online
Unexpected(stats, k) ==
    /\ Key(stats, k) # Prim(Undefined)
    /\ ~ReportsHealthy(Key(stats, k))

\* C12 as stated: a recognized key whose payload is null, a number, a string
\* or an object without the status fields is listed as an unhealthy service,
\* and the snapshot is derived without an error.
C12_UnexpectedShapeListedUnhealthy ==
    (SettledOk /\ Truthy(lastFetch.stats)
        /\ \E k \in DOMAIN serviceDisplayNames : Unexpected(lastFetch.stats, k))
    => /\ DerivedSnapshot
       /\ \A k \in DOMAIN serviceDisplayNames :
             Unexpected(lastFetch.stats, k) =>
                 \E i \in 1..Len(elements.serverList) :
                     elements.serverList[i]
                         = [name |-> serviceDisplayNames[k], isHealthy |-> FALSE]

\* the body with the payload under the unrecognized key replaced by m
WithMetrics(stats, m) == [stats EXCEPT !.keys["metrics"] = m]

\* what a settled request leaves of the service list, the counts, the
\* overall status and the alerts
HealthView(run) ==
    <<run.w.elements.serverList, run.w.elements.activeServices,
      run.w.elements.overallStatus, run.w.alerts>>

\* C13: the service list, the healthy and total counts, the overall status
\* and the alerts a snapshot leaves are the ones the same snapshot leaves
\* with the unrecognized key added or removed.
C13_UnrecognizedKeyIgnored ==
    [][(lastOp' = "fetchComplete" /\ lastFetch'.outcome = "ok"
            /\ lastFetch'.stats.t = "object")
        => \A m \in {Prim(Undefined), hitRatioPayload(8000), statusPayload("degraded")} :
              HealthView(fetchSettled("ok", WithMetrics(lastFetch'.stats, m),
                                      Run0, events, now))
                  = <<elements'.serverList, elements'.activeServices,
                      elements'.overallStatus, alertsContainer'>>]_vars

\* a snapshot that carries the unrecognized key was derived as HEALTHY, 3 of 3
C13_SnapshotWithUnknownKey ==
    /\ SnapshotHandled
    /\ Truthy(Key(lastFetch.stats, "metrics"))
    /\ elements.activeServices = <<3, 3>>
    /\ elements.overallStatus = "HEALTHY"
    /\ Len(elements.serverList) = 3

\* C14 as stated: for a snapshot that reports a success rate the displayed
\* error rate is 100 minus the displayed success rate (both in tenths of a
\* percent); an absent success rate is displayed as a 0 % error rate; and
\* the totals and the sessions are displayed as numbers, never as null or
\* undefined.
C14_ErrorRateComplementsSuccessRate ==
    DerivedSnapshot =>
        /\ ReportedRate(lastFetch.stats).t = "number"
              => elements.errorRate = 1000 - elements.successRate
        /\ ReportedRate(lastFetch.stats).t \in {"undefined", "null"}
              => elements.errorRate = 0
        /\ elements.totalRequests.t = "number"
        /\ elements.activeSessions.t = "number"

\* C15: no two alerts of the alert list carry the same message text.
C15_NoDuplicateAlerts ==
    \A i, j \in 1..Len(alertsContainer) :
        alertsContainer[i].message = alertsContainer[j].message => i = j

\* the same degraded snapshot (600 ms) was handled in two poll cycles in a
\* row and its three alerts are listed once each
C15_SameSnapshotTwice ==
    /\ SnapshotHandled
    /\ lastFetch.stats = DegradedBody
    /\ Len(charts.responseTime.data) = 2
    /\ charts.responseTime.data[1] = Num(60000)
    /\ charts.responseTime.data[2] = Num(60000)
    /\ Len(alertsContainer) = 3

\* the message of Rule C for a snapshot: the names of the services it lists
\* as unhealthy, joined by ", "
DownMessage(stats) ==
    join(downNames(updateServerList(stats, TRUE), 1), 1) \o <<" service(s) are down.">>

\* C18 as stated: every snapshot derived as DEGRADED, one without a
\* load-balancer payload included, leaves an error alert that names exactly
\* its unhealthy services, joined by ", ".
C18_DegradedRaisesDownAlert ==
    (SnapshotHandled /\ Truthy(lastFetch.stats) /\ elements.overallStatus = "DEGRADED")
    => \E i \in 1..Len(alertsContainer) :
           alertsContainer[i] = [type |-> "error", message |-> DownMessage(lastFetch.stats)]

\* the reset button was clicked and the reset event was published
ResetDone == lastOp = "reset" /\ "reset" \in publishedNames

\* C19 as stated: once the reset event has been published the alert list is
\* empty.
C19_ResetClearsAlerts == ResetDone => alertsContainer = <<>>

\* C20: once the reset event has been handled the response-time series and
\* the throughput series have no points and no labels.
C20_ResetClearsCharts ==
    ResetDone =>
        \A c \in DOMAIN charts : charts[c].data = <<>> /\ charts[c].labels = <<>>

\* a reset after a degraded snapshot had been charted and had raised alerts
C20_ResetAfterSnapshot ==
    /\ ResetDone
    /\ elements.overallStatus \in {"HEALTHY", "DEGRADED"}
    /\ Len(alertsContainer) = 3
    /\ charts.throughput.data = <<>>

\* the step handled a snapshot that has a load-balancer payload and lists
\* some service as unhealthy, and every subscriber returned
DownSubmitted ==
    /\ lastOp' = "fetchComplete"
    /\ lastFetch'.outcome = "ok"
    /\ \A i \in 1..Len(published') : published'[i].eventName = "statsUpdated"
    /\ Truthy(Key(lastFetch'.stats, "load-balancer"))
    /\ SomeUnhealthy(lastFetch'.stats)

\* C16 as stated: a submitted message is skipped only if an alert with the
\* identical message is listed, so the Rule C message of a handled snapshot
\* is the message of a listed alert afterwards, also when it is part of the
\* text of another alert.
C16_DedupByExactText ==
    (SnapshotHandled
        /\ Truthy(Key(lastFetch.stats, "load-balancer"))
        /\ SomeUnhealthy(lastFetch.stats))
    => \E i \in 1..Len(alertsContainer) :
           alertsContainer[i].message = DownMessage(lastFetch.stats)

\* C17: the alert list never holds more than maxAlerts alerts; every step
\* leaves the new alerts ahead of the old ones, drops old alerts from the
\* tail only and only when the list is full; and a Rule C message that no
\* listed alert shows is at the head after the step.
C17_BoundedHeadInsertTailEvict ==
    /\ [](Len(alertsContainer) <= maxAlerts)
    /\ [][/\ \E kept \in 0..Len(alertsContainer') :
                /\ kept <= Len(alertsContainer)
                /\ SubSeq(alertsContainer', Len(alertsContainer') - kept + 1,
                          Len(alertsContainer'))
                      = SubSeq(alertsContainer, 1, kept)
                /\ kept < Len(alertsContainer) => Len(alertsContainer') = maxAlerts
          /\ (DownSubmitted
                /\ ~\E i \in 1..Len(alertsContainer) :
                      includes(textContent(alertsContainer[i]),
                               DownMessage(lastFetch'.stats)))
             => (alertsContainer' # <<>>
                    /\ alertsContainer'[1].message = DownMessage(lastFetch'.stats))]_vars

\* two snapshots (12 req/s, then 15 req/s) raised three alerts each: the
\* list is full, the newest alert is at the head and the oldest, the low
\* success rate of the first snapshot, has left from the tail
C17_SixthAlertEvictsOldest ==
    /\ charts.throughput.data = <<Num(1200), Num(1500)>>
    /\ Len(alertsContainer) = maxAlerts
    /\ alertsContainer[1].message = <<"Auth Service", " service(s) are down.">>
    /\ alertsContainer[4].message
          = <<"Auth Service", ", ", "Database", " service(s) are down.">>
    /\ alertsContainer[5].message = <<"High response time: ", "600.0", "ms">>

\* the last n elements of a sequence
Latest(seq, n) == IF Len(seq) > n THEN SubSeq(seq, Len(seq) - n + 1, Len(seq)) ELSE seq

\* the step handled a snapshot
SnapshotStep == lastOp' = "fetchComplete" /\ lastFetch'.outcome = "ok"

\* the value a snapshot contributes to a series
Charted(stats, field) == OrElse(Prop(Key(stats, "load-balancer"), field), Num(0))

\* C21: a series never holds more than maxChartPoints points; a snapshot
\* appends its point at the end and the series keeps the maxChartPoints
\* latest points in append order; no other step of a session without reset
\* changes a series.
C21_SeriesKeepsLatestPoints ==
    /\ [](\A c \in DOMAIN charts :
            /\ Len(charts[c].data) <= maxChartPoints
            /\ Len(charts[c].labels) = Len(charts[c].data))
    /\ [][IF SnapshotStep
          THEN /\ charts'.responseTime =
                    [labels |-> Latest(Append(charts.responseTime.labels, now),
                                       maxChartPoints),
                     data |-> Latest(Append(charts.responseTime.data,
                                            Charted(lastFetch'.stats,
                                                    "avg_response_time_ms")),
                                     maxChartPoints)]
               /\ charts'.throughput =
                    [labels |-> Latest(Append(charts.throughput.labels, now),
                                       maxChartPoints),
                     data |-> Latest(Append(charts.throughput.data,
                                            Charted(lastFetch'.stats,
                                                    "requests_per_second")),
                                     maxChartPoints)]
          ELSE charts' = charts]_vars

\* 38 refreshes are in a log without an error entry, so at least 38
\* snapshots were charted, and the series holds the 30 latest
C21_SeriesOverflowed ==
    /\ Len(logsContainer) = 40
    /\ errorEntries = {}
    /\ inflight = <<>>
    /\ Len(charts.responseTime.data) = maxChartPoints
    /\ charts.responseTime.labels[maxChartPoints] = now - 1
    /\ charts.responseTime.labels[1] = now - 59

\* C30: the log never holds more than maxLogEntries entries; every step
\* leaves its new entries ahead of the old ones, newest first, and drops old
\* entries from the tail only and only when the log is full.
C30_LogBoundedNewestFirst ==
    /\ [](Len(logsContainer) <= maxLogEntries)
    /\ [][\E kept \in 0..Len(logsContainer') :
            /\ kept <= Len(logsContainer)
            /\ SubSeq(logsContainer', Len(logsContainer') - kept + 1, Len(logsContainer'))
                  = SubSeq(logsContainer, 1, kept)
            /\ kept < Len(logsContainer) => Len(logsContainer') = maxLogEntries
            /\ \A i \in 1..(Len(logsContainer') - kept) : logsContainer'[i].time = now
            /\ (lastOp' = "refresh") =>
                  (kept = Len(logsContainer') - 1
                     /\ logsContainer'[1].message = "Manual refresh triggered.")]_vars

\* the log is full and its first entry ever, the one main() logged, has
\* left from the tail
C30_OldestEntryDropped ==
    /\ Len(logsContainer) = maxLogEntries
    /\ logsContainer[maxLogEntries].message # "Monitoring dashboard initialized."
    /\ logsContainer[1].time = now - 1

\* the step settled a request with a failure of the fetch itself
FailureStep ==
    lastOp' = "fetchComplete" /\ lastFetch'.outcome \in {"http", "network", "parse"}

\* C22: a failed fetch leaves both series as they were, sets the overall
\* status to DISCONNECTED and puts exactly one entry, an error, at the head
\* of the log.
C22_FailedFetchKeepsSeries ==
    [][FailureStep =>
          /\ charts' = charts
          /\ elements'.overallStatus = "DISCONNECTED"
          /\ Len(logsContainer') = Len(logsContainer) + 1
          /\ Tail(logsContainer') = logsContainer
          /\ logsContainer'[1].type = "error"]_vars

\* a network failure after a snapshot had been charted
C22_FailureAfterChartedSnapshot ==
    /\ Settled
    /\ lastFetch.outcome = "network"
    /\ Len(charts.responseTime.data) = 1
    /\ Len(charts.throughput.data) = 1
    /\ logsContainer[1].message = "[ERROR] Failed to fetch"

\* the step ran apiService.start(): from main(), directly, or from the
\* toggle button while monitoring was off
StartStep ==
    \/ lastOp' \in {"main", "start"}
    \/ lastOp' = "toggleMonitoring" /\ ~monitoringEnabled

\* C28: monitoring is on when the page loads, and every start() leaves it
\* on, has issued one request in that very step and has armed the interval.
C28_StartFetchesImmediately ==
    /\ [](pc = "loading" => monitoringEnabled)
    /\ [][StartStep =>
            /\ monitoringEnabled'
            /\ Len(inflight') = Len(inflight) + 1
            /\ SubSeq(inflight', 1, Len(inflight)) = inflight
            /\ inflight'[Len(inflight')].at = now
            /\ timers' = {fetchIntervalId'}
            /\ fetchIntervalId' # 0]_vars

\* monitoring was toggled off and on again: the restart has its own request
\* in flight next to the one main() issued
C28_RestartedByToggle ==
    /\ lastOp = "toggleMonitoring"
    /\ monitoringEnabled
    /\ Len(inflight) = 2
    /\ inflight[1].by = "start"
    /\ inflight[2] = [by |-> "toggle", at |-> now - 1]
    /\ timers = {2}

\* the log entry a step made at time t
Entry(t, message, type) == [time |-> t, message |-> message, type |-> type]

\* the step stopped monitoring: stop(), or the toggle button while it was on
StopStep ==
    \/ lastOp' = "stop"
    \/ lastOp' = "toggleMonitoring" /\ monitoringEnabled

\* C29: a start, a stop, a manual refresh and a fetch error each put exactly
\* one entry at the head of the log, and a reset puts its two, the later one
\* first.
C29_OneLogEntryPerEvent ==
    [][/\ (lastOp' = "start" \/ (lastOp' = "toggleMonitoring" /\ ~monitoringEnabled))
            => logsContainer' = <<Entry(now, "Monitoring started.", "info")>>
                                    \o logsContainer
       /\ StopStep
            => logsContainer' = <<Entry(now, "Monitoring paused.", "info")>>
                                    \o logsContainer
       /\ lastOp' = "refresh"
            => logsContainer' = <<Entry(now, "Manual refresh triggered.", "info")>>
                                    \o logsContainer
       /\ lastOp' = "reset"
            => logsContainer' = <<Entry(now, "Statistics have been reset.", "info"),
                                  Entry(now, "Resetting statistics...", "info")>>
                                    \o logsContainer
       /\ (lastOp' = "fetchComplete"
             /\ \E i \in 1..Len(published') : published'[i].eventName = "fetchError")
            => (Len(logsContainer') = Len(logsContainer) + 1
                  /\ Tail(logsContainer') = logsContainer
                  /\ logsContainer'[1].type = "error"
                  /\ logsContainer'[1].time = now)
       /\ (lastOp' = "fetchComplete"
             /\ \A i \in 1..Len(published') : published'[i].eventName # "fetchError")
            => logsContainer' = logsContainer]_vars

\* a reset right after a fetch error: the two entries of the reset lie ahead
\* of the entry of the error
C29_ResetAfterError ==
    /\ lastOp = "reset"
    /\ Len(logsContainer) = 5
    /\ logsContainer[1].message = "Statistics have been reset."
    /\ logsContainer[2].message = "Resetting statistics..."
    /\ logsContainer[3] = Entry(now - 2, "[ERROR] Backend communication error", "error")

\* the handlers a step has to invoke for the events it published, from
\* the i-th on: for each event its subscribers in subscription order
RECURSIVE Subscribed(_)
Subscribed(i) ==
    IF i > Len(published) THEN <<>>
    ELSE [j \in 1..Len(events[published[i].eventName]) |->
             [handler |-> events[published[i].eventName][j],
              eventName |-> published[i].eventName]]
         \o Subscribed(i + 1)

\* the handlers the step invoked
Invoked == [i \in 1..Len(calls) |->
               [handler |-> calls[i].handler, eventName |-> calls[i].eventName]]

\* C25 as stated: every publish of a step has invoked every handler
\* subscribed to its event, once each and in subscription order, and no
\* other handler.
C25_PublishInvokesSubscribers == pc = "ready" => Invoked = Subscribed(1)

\* C26 as stated: when a subscriber of statsUpdated throws, the other
\* subscribers of statsUpdated are still invoked and the exception does not
\* reach fetchAllStats, which therefore publishes no fetchError.
C26_HandlerExceptionIsolated ==
    SettledOk =>
        /\ \A j \in 1..Len(events["statsUpdated"]) :
              \E i \in 1..Len(calls) :
                  /\ calls[i].eventName = "statsUpdated"
                  /\ calls[i].handler = events["statsUpdated"][j]
        /\ "fetchError" \notin publishedNames

\* the last step issued a request
FetchIssued == inflight # <<>> /\ inflight[Len(inflight)].at = now - 1

\* C27: a failed fetch leaves the monitoring flag and the armed interval as
\* they were and issues no request of its own; and with the interval firing,
\* after a failure while monitoring is on a request is issued again, unless
\* monitoring is stopped first (or the steps explored end).
C27_FailureKeepsPolling ==
    /\ [][FailureStep =>
            /\ monitoringEnabled' = monitoringEnabled
            /\ fetchIntervalId' = fetchIntervalId
            /\ timers' = timers
            /\ Len(inflight') = Len(inflight) - 1]_vars
    /\ ((SettledFailed /\ monitoringEnabled /\ now < MaxSteps)
            ~> (FetchIssued \/ ~monitoringEnabled \/ now >= MaxSteps))

\* the interval fired and issued a request after a network failure had left
\* the page DISCONNECTED
C27_TickAfterFailure ==
    /\ lastOp = "timerTick"
    /\ lastFetch.outcome = "network"
    /\ elements.overallStatus = "DISCONNECTED"
    /\ monitoringEnabled
    /\ inflight[Len(inflight)] = [by |-> "timer", at |-> now - 1]

C24_ResetIssuesRequest ==
    lastOp = "reset" =>
        /\ \E i \in 1..Len(inflight) : inflight[i] = [by |-> "resetAllStats", at |-> now - 1]
        /\ "reset" \notin publishedNames

\* the place of a display name in the table of recognized services
TableIndex(name) ==
    CHOOSE n \in 1..Len(serviceKeys) : serviceDisplayNames[serviceKeys[n]] = name

\* C31: the list a handled snapshot leaves starts with the Load Balancer,
\* healthy; every other entry is a recognized service with a payload in the
\* snapshot, healthy exactly when its status is "healthy" or its
\* service_status is "online"; and the entries follow the order of the table.
C31_ListedHealthAndOrder ==
    (SnapshotHandled /\ Truthy(lastFetch.stats)) =>
        LET list == elements.serverList
        IN  /\ Len(list) >= 1
            /\ list[1] = [name |-> "Load Balancer", isHealthy |-> TRUE]
            /\ \A i \in 2..Len(list) :
                  \E k \in DOMAIN serviceDisplayNames :
                      /\ list[i].name = serviceDisplayNames[k]
                      /\ list[i].isHealthy <=> ReportsHealthy(Key(lastFetch.stats, k))
            /\ \A i, j \in 2..Len(list) :
                  i < j => TableIndex(list[i].name) < TableIndex(list[j].name)

\* auth by status, the database by service_status alone and a cache that
\* reports neither: four entries in the order of the table
C31_OnlineAloneIsHealthy ==
    /\ SnapshotHandled
    /\ Key(lastFetch.stats, "database") = onlinePayload
    /\ elements.serverList =
          <<[name |-> "Load Balancer", isHealthy |-> TRUE],
            [name |-> "Auth Service", isHealthy |-> TRUE],
            [name |-> "Database", isHealthy |-> TRUE],
            [name |-> "Cache", isHealthy |-> FALSE]>>

\* the warnings of Rules A and B for the values a snapshot reports
RateAlert(rate) ==
    [type |-> "warning",
     message |-> <<"Success rate is low: ", tenthsText(toFixed1(rate.n)), "%">>]
ResponseAlert(avg) ==
    [type |-> "warning",
     message |-> <<"High response time: ", tenthsText(toFixed1(avg.n)), "ms">>]
ReportedResponseTime(stats) == Prop(Key(stats, "load-balancer"), "avg_response_time_ms")
Listed(alert) == \E i \in 1..Len(alertsContainer) : alertsContainer[i] = alert

\* C32: on the first snapshot of a session, when it has a load-balancer
\* payload, the warning with the success rate to one decimal is listed
\* exactly when the rate is a number below 95, and the warning with the
\* response time to one decimal exactly when it is a number above 500; with
\* no unhealthy service, a rate of 80.0 and a response time of at most 500
\* the one alert listed is the warning "Success rate is low: 80.0%".
C32_StrictThresholds ==
    (SnapshotHandled /\ Truthy(Key(lastFetch.stats, "load-balancer"))) =>
        LET rate == ReportedRate(lastFetch.stats)
            avg == ReportedResponseTime(lastFetch.stats)
        IN  /\ (\E i \in 1..Len(alertsContainer) :
                    alertsContainer[i].message[1] = "Success rate is low: ")
                  <=> (rate.t = "number" /\ rate.n < 9500)
            /\ (rate.t = "number" /\ rate.n < 9500) => Listed(RateAlert(rate))
            /\ (\E i \in 1..Len(alertsContainer) :
                    alertsContainer[i].message[1] = "High response time: ")
                  <=> (avg.t = "number" /\ avg.n > 50000)
            /\ (avg.t = "number" /\ avg.n > 50000) => Listed(ResponseAlert(avg))
            /\ (~SomeUnhealthy(lastFetch.stats) /\ rate = Num(8000)
                    /\ ~(avg.t = "number" /\ avg.n > 50000))
                  => alertsContainer =
                        <<[type |-> "warning",
                           message |-> <<"Success rate is low: ", "80.0", "%">>]>>

\* a success rate of exactly 95 and a response time of exactly 500 ms, with
\* every service healthy, raised no alert
C32_AtBothThresholds ==
    /\ SnapshotHandled
    /\ ReportedRate(lastFetch.stats) = Num(9500)
    /\ ReportedResponseTime(lastFetch.stats) = Num(50000)
    /\ Key(lastFetch.stats, "auth") = statusPayload("healthy")
    /\ ~SomeUnhealthy(lastFetch.stats)
    /\ alertsContainer = <<>>

\* the messages checkAlerts submits for a snapshot
Submitted(stats) ==
    IF ~Truthy(Key(stats, "load-balancer")) THEN {}
    ELSE (IF LessThan(ReportedRate(stats), 9500)
          THEN {RateAlert(ReportedRate(stats)).message} ELSE {})
         \cup (IF GreaterThan(ReportedResponseTime(stats), 50000)
               THEN {ResponseAlert(ReportedResponseTime(stats)).message} ELSE {})
         \cup (IF SomeUnhealthy(stats) THEN {DownMessage(stats)} ELSE {})

\* C33: a snapshot whose messages are all the messages of listed alerts
\* leaves the alert list exactly as it was.
C33_QueuedMessageChangesNothing ==
    [][(SnapshotStep
          /\ Submitted(lastFetch'.stats) # {}
          /\ Submitted(lastFetch'.stats)
                \subseteq {alertsContainer[i].message : i \in 1..Len(alertsContainer)})
       => alertsContainer' = alertsContainer]_vars

\* the low success rate of 80.0 was reported again by a snapshot that
\* raises nothing else (16 req/s), while its alert was the oldest of three
C33_RateSubmittedAgain ==
    /\ SnapshotHandled
    /\ charts.throughput.data = <<Num(1200), Num(1600)>>
    /\ Len(alertsContainer) = 3
    /\ alertsContainer[1].type = "error"
    /\ alertsContainer[3] = RateAlert(Num(8000))

\* C34: every snapshot appends one point to the response-time series, the
\* average response time it reports or 0, and one to the throughput series,
\* the requests per second it reports or 0, both under the time of the step.
C34_SnapshotAppendsOnePointEach ==
    [][SnapshotStep =>
          /\ charts'.responseTime.data
                = Append(charts.responseTime.data,
                         Charted(lastFetch'.stats, "avg_response_time_ms"))
          /\ charts'.throughput.data
                = Append(charts.throughput.data,
                         Charted(lastFetch'.stats, "requests_per_second"))
          /\ charts'.responseTime.labels = Append(charts.responseTime.labels, now)
          /\ charts'.throughput.labels = Append(charts.throughput.labels, now)]_vars

\* the empty object was charted as 0 ms and 0 req/s after a healthy snapshot
C34_MissingValuesChartedAsZero ==
    /\ SettledOk
    /\ lastFetch.stats = EmptyBody
    /\ charts.responseTime.data = <<Num(4000), Num(0)>>
    /\ charts.throughput.data = <<Num(1200), Num(0)>>
    /\ charts.responseTime.labels = charts.throughput.labels

\* how many of the events a step published are statsUpdated or fetchError
FetchEvents ==
    Cardinality({i \in 1..Len(published) :
                    published[i].eventName \in {"statsUpdated", "fetchError"}})

\* C35 as stated: a request that settles publishes exactly one of
\* statsUpdated and fetchError, also when a subscriber of statsUpdated
\* throws.
C35_ExactlyOneFetchEvent == Settled => FetchEvents = 1

\* the step handled a snapshot that raises no alert
ClearedStep ==
    /\ SnapshotStep
    /\ \A i \in 1..Len(published') : published'[i].eventName = "statsUpdated"
    /\ Submitted(lastFetch'.stats) = {}

\* C39: a snapshot in which no alerting condition holds, and a failed
\* fetch, leave the alert list exactly as it was.
C39_ClearedConditionKeepsAlerts ==
    [][(ClearedStep \/ FailureStep) => alertsContainer' = alertsContainer]_vars

\* a healthy snapshot was handled while the three alerts of a degraded one
\* were listed
C39_HealthyAfterDegraded ==
    /\ SnapshotHandled
    /\ lastFetch.stats = HealthyBody
    /\ elements.overallStatus = "HEALTHY"
    /\ Len(alertsContainer) = 3
    /\ alertsContainer[1].message = <<"Auth Service", " service(s) are down.">>

\* C40: each chart has as many labels as values, and the two series hold
\* the same number of points.
C40_SeriesLengthsAgree ==
    /\ \A c \in DOMAIN charts : Len(charts[c].labels) = Len(charts[c].data)
    /\ Len(charts.responseTime.data) = Len(charts.throughput.data)

\* a snapshot was charted after a reset
C40_ChartedAfterReset ==
    /\ SettledOk
    /\ Len(charts.responseTime.data) = 1
    /\ Len(charts.throughput.labels) = 1
    /\ charts.responseTime.labels[1] >= 3
    /\ \E i \in 1..Len(logsContainer) :
          logsContainer[i].message = "Statistics have been reset."

\* C36 as stated: the results of overlapping requests are published in the
\* order the requests were issued, so what is displayed comes from the most
\* recently issued of the completed requests.
C36_PublishedInIssueOrder ==
    [][(lastOp' = "fetchComplete" /\ lastFetch.outcome # "none")
          => lastFetch'.at >= lastFetch.at]_vars

\* the request the step settled, and what is left in flight
SettledRequest == [by |-> lastFetch'.by, at |-> lastFetch'.at]
StillInFlight(i) == SubSeq(inflight, 1, i - 1) \o SubSeq(inflight, i + 1, Len(inflight))

\* C36: the results of overlapping requests are published in the order the
\* requests complete: whichever request settles, issued before or after the
\* one displayed, publishes its own result at once, the others stay in
\* flight in their order, and the newest chart point and the overall status
\* come from the request that settled last.
C36_PublishedInCompletionOrder ==
    [][lastOp' = "fetchComplete" =>
          /\ \E i \in 1..Len(inflight) :
                inflight[i] = SettledRequest /\ inflight' = StillInFlight(i)
          /\ Len(published') >= 1
          /\ published'[1].eventName =
                (IF lastFetch'.outcome = "ok" THEN "statsUpdated" ELSE "fetchError")
          /\ lastFetch'.outcome = "ok" =>
                /\ charts'.responseTime.labels # <<>>
                /\ Latest(charts'.responseTime.labels, 1) = <<now>>
                /\ Latest(charts'.responseTime.data, 1)
                      = <<Charted(lastFetch'.stats, "avg_response_time_ms")>>
                /\ Latest(charts'.throughput.data, 1)
                      = <<Charted(lastFetch'.stats, "requests_per_second")>>
          /\ lastFetch'.outcome # "ok" => elements'.overallStatus = "DISCONNECTED"
          /\ (lastFetch'.outcome = "ok" /\ lastFetch'.stats = HealthyBody)
                => elements'.overallStatus = "HEALTHY"
          /\ (lastFetch'.outcome = "ok" /\ lastFetch'.stats = DegradedBody)
                => elements'.overallStatus = "DEGRADED"]_vars

\* the request of main() was answered after the one of a later refresh: the
\* page shows the older request's snapshot on top of the newer one's
C36_OlderRequestAnsweredLast ==
    /\ SnapshotHandled
    /\ lastFetch.by = "start"
    /\ lastFetch.at = 0
    /\ lastFetch.stats = DegradedBody
    /\ elements.overallStatus = "DEGRADED"
    /\ Len(charts.responseTime.data) = 2
    /\ charts.responseTime.data[1] = Charted(HealthyBody, "avg_response_time_ms")
    /\ inflight = <<>>

\* the poller is STOPPED with no request in flight, and the step does not
\* start it
StoppedStep == ~monitoringEnabled /\ inflight = <<>> /\ ~monitoringEnabled'

\* C37 as stated: once the poller is STOPPED and the requests in flight
\* have settled, no statsUpdated or fetchError is published and the status,
\* the series and the alerts stay as they are until the next start().
C37_StoppedPageUnchanged ==
    [][StoppedStep =>
          /\ \A i \in 1..Len(published') :
                published'[i].eventName \notin {"statsUpdated", "fetchError"}
          /\ elements' = elements
          /\ charts' = charts
          /\ alertsContainer' = alertsContainer]_vars

\* C37: once the poller is STOPPED and the requests in flight have settled,
\* until the next start() no request is issued, no statsUpdated or
\* fetchError is published and the status stays as it is; the series and
\* the alerts change by a click on reset only, which empties the series.
C37_StoppedChangesOnlyByReset ==
    [][StoppedStep =>
          /\ inflight' = <<>>
          /\ \A i \in 1..Len(published') :
                published'[i].eventName \notin {"statsUpdated", "fetchError"}
          /\ elements' = elements
          /\ lastOp' # "reset" => (charts' = charts /\ alertsContainer' = alertsContainer)
          /\ lastOp' = "reset" =>
                \A c \in DOMAIN charts :
                    charts'[c].labels = <<>> /\ charts'[c].data = <<>>]_vars

\* a reset clicked while STOPPED emptied the series of a charted snapshot and
\* left its status on the page
C37_ResetWhileStopped ==
    /\ ~monitoringEnabled
    /\ inflight = <<>>
    /\ lastOp = "reset"
    /\ lastFetch.outcome = "ok"
    /\ elements.overallStatus = "DEGRADED"
    /\ charts.responseTime.data = <<>>
    /\ publishedNames = {"log", "reset"}

\* the display names of the services the snapshot lists as unhealthy
UnhealthyNames(stats) ==
    {updateServerList(stats, TRUE)[i].name :
        i \in {j \in 1..Len(updateServerList(stats, TRUE)) :
                  ~updateServerList(stats, TRUE)[j].isHealthy}}

\* a listed error alert names the service
ErrorAlertNames(name) ==
    \E i \in 1..Len(alertsContainer) :
        /\ alertsContainer[i].type = "error"
        /\ \E k \in 1..Len(alertsContainer[i].message) : alertsContainer[i].message[k] = name

\* C38: after the alert evaluation of every snapshot with a load-balancer
\* payload, each service the snapshot reports unhealthy is named by a listed
\* error alert, also when the alert raised for it by an earlier poll has
\* been evicted by newer alerts in between.
C38_UnhealthyServiceStaysAlerted ==
    (SnapshotHandled /\ Truthy(Key(lastFetch.stats, "load-balancer")))
    => \A name \in UnhealthyNames(lastFetch.stats) : ErrorAlertNames(name)

\* the fourth poll in a row with the Auth Service down: its two warnings
\* pushed the error alert of the first poll out of the full list, and the
\* evaluation raised it again at the head
C38_ErrorAlertRaisedAgain ==
    /\ SnapshotHandled
    /\ lastFetch.stats = AuthDownBody
    /\ charts.responseTime.data = <<Num(80000), Num(90000), Num(100000), Num(80000)>>
    /\ Len(alertsContainer) = maxAlerts
    /\ alertsContainer[1] = [type |-> "error",
                             message |-> <<"Auth Service", " service(s) are down.">>]
    /\ alertsContainer[2] = ResponseAlert(Num(80000))
    /\ alertsContainer[3] = RateAlert(Num(8500))
    /\ \A i \in 2..maxAlerts : alertsContainer[i].type = "warning"

====
